---- MODULE Spec2Model ----
(***************************************************************************)
(* Model of pkg/objectfile/object_file.go (parca-agent): opening an ELF    *)
(* object file for a runtime mapping, the once-only lazy computation of    *)
(* the relocation base behind ObjAddr, program-segment selection, and      *)
(* Close.                                                                  *)
(*                                                                         *)
(* Conventions.                                                            *)
(*  - A Go error is the set of the messages it carries: nil is {},         *)
(*    fmt.Errorf("...: %w", e) adds a message to e, errors.Join(a, b) is   *)
(*    the union (errors.Join drops nil operands and is nil when all are).  *)
(*  - A Go pointer that may be nil is a sequence of length 0 (nil) or 1.   *)
(*  - A *elf.ProgHeader is the index of the header in ef.Progs, 0 for nil. *)
(*  - uint64 arithmetic is arithmetic modulo 2^AddrBits; the sign-bit      *)
(*    boundary 1<<63 is 2^(AddrBits-1).                                    *)
(***************************************************************************)
EXTENDS Integers, Sequences, FiniteSets, TLC

(* ------------------------------ bounds -------------------------------- *)

\* Width of an address in the model (uint64 in the program).
AddrBits == 16

\* Number of goroutines calling ObjAddr on the handle.
NumCallers == 2

\* Number of format checks (isELF) made on the handle's file after Open.
MaxChecks == 2

(* ------------------------- program constants --------------------------- *)

\* pageAligned: addr%4096 == 0.
PageSize == 4096

\* var header [4]byte
MagicLen == 4

\* elf.ELFMAG, "\177ELF".
ELFMAG == <<127, 69, 76, 70>>

Modulus == 2 ^ AddrBits

\* uint64(1) << 63
SignBit == 2 ^ (AddrBits - 1)

\* uint64 subtraction and addition.
SubU(a, b) == (a - b + Modulus) % Modulus

AddU(a, b) == (a + b) % Modulus

(* ------------------------------ errors -------------------------------- *)

NoErr == {}

EOpen == "error opening"
ERead == "error reading magic number"
ESeek == "failed to seek to the beginning of the file"
EFormat == "unrecognized binary format"
EReadingELF == "error reading ELF file"
ENilFile == "nil file"
EDecode == "elf.NewFile"
ESymbols == "elf.Symbols"
EBaseId == "could not identify base"
EGetBase == "elfexec.GetBase"
EBounds == "specified address is outside the mapping range"
EFindPh == "failed to find program header"
ENoMatch == "no program header matches mapping info"
EOffNone == "no program header matches file offset"
EOffAmbig == "ambiguous program headers for file offset"
EEOF == "EOF"
EIO == "input/output error"
EClose == "close primary file"
ECloseDebug == "close debuginfo file"

\* fmt.Errorf(msg + ": %w", err)
Wrap(msg, err) == err \cup {msg}

\* errors.Join(a, b)
Join(a, b) == a \cup b

(* ------------------------- strings and names --------------------------- *)

\* A Go string is the sequence of its characters.
KallsymsPrefix ==
    <<"[", "k", "e", "r", "n", "e", "l", ".", "k", "a", "l", "l", "s", "y", "m", "s", "]">>

Vmlinux == <<"v", "m", "l", "i", "n", "u", "x">>

SymText == <<"_", "t", "e", "x", "t">>

SymStext == <<"_", "s", "t", "e", "x", "t">>

\* strings.HasPrefix(s, prefix)
HasPrefix(s, prefix) ==
    /\ Len(s) >= Len(prefix)
    /\ SubSeq(s, 1, Len(prefix)) = prefix

\* strings.Contains(s, substr)
Contains(s, substr) ==
    \E i \in 1..(Len(s) - Len(substr) + 1) : SubSeq(s, i, i + Len(substr) - 1) = substr

\* Variant of kernelRelocationSymbol: the prefix is looked for anywhere in the
\* name, and what follows its first occurrence is returned.
kernelRelocationSymbolAnywhere(mappingFile) ==
    IF ~Contains(mappingFile, KallsymsPrefix)
    THEN <<>>
    ELSE LET i == CHOOSE j \in 1..Len(mappingFile) :
                    /\ SubSeq(mappingFile, j, j + Len(KallsymsPrefix) - 1) = KallsymsPrefix
                    /\ \A k \in 1..(j - 1) :
                         SubSeq(mappingFile, k, k + Len(KallsymsPrefix) - 1) # KallsymsPrefix
         IN  SubSeq(mappingFile, i + Len(KallsymsPrefix), Len(mappingFile))

\* kernelRelocationSymbol(mappingFile)
kernelRelocationSymbol(mappingFile) ==
    IF ~HasPrefix(mappingFile, KallsymsPrefix)
    THEN <<>>
    ELSE SubSeq(mappingFile, Len(KallsymsPrefix) + 1, Len(mappingFile))

(* ------------------------------ the file ------------------------------- *)

\* Variant of rewindFile: a seek failure replaces the error in flight.
rewindFileReplaces(err, seekFails) ==
    IF seekFails THEN {ESeek} ELSE err

\* rewindFile(f, err): the error it returns, given whether f.Seek fails.
rewindFile(err, seekFails) ==
    IF seekFails
    THEN IF err = NoErr THEN {ESeek} ELSE Join(err, {ESeek})
    ELSE err

\* Variant of rewindPos: the position is left where the read put it.
rewindPosStays(pos, seekFails) == pos

\* The read position after rewindFile: Seek(0, io.SeekStart) moves it to 0
\* unless it fails.
rewindPos(pos, seekFails) == IF seekFails THEN pos ELSE 0

Min(a, b) == IF a < b THEN a ELSE b

\* Variant of fileRead: a read of fewer than n bytes is an error (io.ReadFull).
fileReadFull(bytes, pos, n, readFails) ==
    LET avail == IF Len(bytes) > pos THEN Min(n, Len(bytes) - pos) ELSE 0
    IN  IF readFails
        THEN [n |-> 0, data |-> <<>>, err |-> {EIO}]
        ELSE IF avail < n
        THEN [n |-> avail, data |-> <<>>, err |-> {EEOF}]
        ELSE [n |-> avail, data |-> SubSeq(bytes, pos + 1, pos + avail), err |-> NoErr]

\* f.Read(header[:]) on a regular file at position pos: the bytes read (at most
\* len(header), with no error even when fewer), io.EOF when none is left, or an
\* I/O failure.
fileRead(bytes, pos, n, readFails) ==
    LET avail == IF Len(bytes) > pos THEN Min(n, Len(bytes) - pos) ELSE 0
    IN  IF readFails
        THEN [n |-> 0, data |-> <<>>, err |-> {EIO}]
        ELSE IF avail = 0
        THEN [n |-> 0, data |-> <<>>, err |-> {EEOF}]
        ELSE [n |-> avail, data |-> SubSeq(bytes, pos + 1, pos + avail), err |-> NoErr]

\* var header [4]byte after the read: what was read, the rest zero.
headerOf(data) == [i \in 1..MagicLen |-> IF i <= Len(data) THEN data[i] ELSE 0]

\* isELF(f): the result (ok, err) and the file position it leaves.
isELF(bytes, pos, readFails, seekFails) ==
    LET rd == fileRead(bytes, pos, MagicLen, readFails)
        isELFMagic == headerOf(rd.data) = ELFMAG
        ok == IF rd.err # NoErr THEN FALSE ELSE isELFMagic
        err == IF rd.err # NoErr THEN Wrap(ERead, rd.err) ELSE NoErr
    IN  [ok |-> ok,
         inErr |-> err,
         err |-> rewindFile(err, seekFails),
         pos |-> rewindPos(pos + rd.n, seekFails)]

(* --------------------------- the ELF decoder --------------------------- *)

\* elfexec.FindTextProgHeader(ef): the header of the text region, 0 for nil.
FindTextProgHeader(ef) == ef.text

\* elfexec.GetBase(&ef.FileHeader, ph, kernelOffset, start, limit, offset):
\* a relocation base or an error, a function of its arguments.
GetBase(ef, ph, kernelOffset, start, limit, offset) == ef.base[ph]

\* elfexec.ProgramHeadersForMapping(phdrs, mapOff, mapSz): the headers whose
\* file-offset range overlaps the window [mapOff, mapOff + mapSz).
Overlaps(p, mapOff, mapSz) ==
    /\ mapOff < AddU(p.Off, p.Memsz)
    /\ p.Off < AddU(mapOff, mapSz)

ProgramHeadersForMapping(progs, phdrs, mapOff, mapSz) ==
    SelectSeq(phdrs, LAMBDA i : Overlaps(progs[i], mapOff, mapSz))

\* Whether the file-offset range of p contains fileOffset.
ContainsOffset(p, fileOffset) ==
    /\ fileOffset >= p.Off
    /\ fileOffset < AddU(p.Off, p.Memsz)

\* elfexec.HeaderForFileOffset(headers, fileOffset)
HeaderForFileOffset(progs, headers, fileOffset) ==
    LET hits == SelectSeq(headers, LAMBDA i : ContainsOffset(progs[i], fileOffset))
    IN  IF Len(hits) = 0 THEN [ph |-> 0, err |-> {EOffNone}]
        ELSE IF Len(hits) > 1 THEN [ph |-> 0, err |-> {EOffAmbig}]
        ELSE [ph |-> hits[1], err |-> NoErr]

(* ------------------------ segment selection ---------------------------- *)

\* for i := range ef.Progs { if ef.Progs[i].Type == elf.PT_LOAD { append } }
loadableHeaders(progs) ==
    SelectSeq([i \in 1..Len(progs) |-> i], LAMBDA i : progs[i].Type = "PT_LOAD")

\* Variant of isKernelMapping: the sign-bit test on the limit is missing.
isKernelMappingNoSignBit(m) ==
    \/ m.kernelOffset # <<>>
    \/ m.start >= m.limit

\* The test that sends a mapping down the kernel path.
isKernelMapping(m) ==
    \/ m.kernelOffset # <<>>
    \/ m.start >= m.limit
    \/ m.limit >= SignBit

\* Variant of chooseHeader: a single associated header is not returned as is,
\* the address decides in every case.
chooseHeaderByOffset(m, progs, headers, addr) ==
    IF Len(headers) = 0 THEN [ph |-> 0, err |-> {ENoMatch}]
    ELSE HeaderForFileOffset(progs, headers, AddU(SubU(addr, m.start), m.offset))

\* The choice among the headers associated with the mapping.
chooseHeader(m, progs, headers, addr) ==
    IF Len(headers) = 0 THEN [ph |-> 0, err |-> {ENoMatch}]
    ELSE IF Len(headers) = 1 THEN [ph |-> headers[1], err |-> NoErr]
    ELSE HeaderForFileOffset(progs, headers, AddU(SubU(addr, m.start), m.offset))

\* (m *mapping) findProgramHeader(ef, addr)
findProgramHeader(m, ef, addr) ==
    IF isKernelMapping(m)
    THEN [ph |-> FindTextProgHeader(ef), err |-> NoErr]
    ELSE LET phdrs == loadableHeaders(ef.Progs)
         IN  IF Len(phdrs) = 0
             THEN [ph |-> 0, err |-> NoErr]
             ELSE chooseHeader(m, ef.Progs,
                               ProgramHeadersForMapping(ef.Progs, phdrs, m.offset,
                                                        SubU(m.limit, m.start)),
                               addr)

(* ------------------------------- open ---------------------------------- *)

pageAligned(addr) == addr % PageSize = 0

\* Variant of needsSymbols: the alignment of limit is not looked at.
needsSymbolsNoLimit(filePath, start, limit, offset) ==
    \/ Contains(filePath, Vmlinux)
    \/ ~pageAligned(start)
    \/ ~pageAligned(offset)

\* Whether open reads the symbol table.
needsSymbols(filePath, start, limit, offset) ==
    \/ Contains(filePath, Vmlinux)
    \/ ~pageAligned(start)
    \/ ~pageAligned(limit)
    \/ ~pageAligned(offset)

\* The name open looks for among the symbols.
soughtSymbol(relocationSymbol) ==
    IF relocationSymbol = <<>> THEN SymStext ELSE relocationSymbol

\* for _, s := range symbols { if sym.Name == relocationSymbol { ...; break } }
findSymbol(symbols, name) ==
    LET hits == SelectSeq(symbols, LAMBDA sym : sym.Name = name)
    IN  IF Len(hits) = 0 THEN <<>> ELSE <<hits[1].Value>>

\* elfFile.Symbols(): the symbols, none when it fails.
symbolsOf(ef) == IF ef.symErr = "nil" THEN ef.syms ELSE <<>>

\* The kernelOffset open computes.
kernelOffsetOf(ef, filePath, start, limit, offset, relocationSymbol) ==
    IF needsSymbols(filePath, start, limit, offset)
    THEN findSymbol(symbolsOf(ef), soughtSymbol(relocationSymbol))
    ELSE <<>>

\* Variant of symbolsFatal: a missing symbol table is fatal too.
symbolsFatalAlways(symErr) == symErr # "nil"

\* Line 174: err != nil && !errors.Is(err, elf.ErrNoSymbols)
symbolsFatal(symErr) == symErr # "nil" /\ symErr # "ErrNoSymbols"

\* Variant of feasibilityHeader: the text header only when kernelOffset is set.
feasibilityHeaderKernelOnly(ef, kernelOffset) ==
    IF kernelOffset # <<>> THEN FindTextProgHeader(ef) ELSE 0

\* Line 200: the program header open passes to elfexec.GetBase.
feasibilityHeader(ef, kernelOffset) == FindTextProgHeader(ef)

\* What a call of open did: whether the file was decoded, whether the symbol
\* table was read and for which name it was searched, and whether and with which
\* program header and kernelOffset elfexec.GetBase was called.
NoLog ==
    [decoded |-> FALSE, scanned |-> FALSE, sought |-> <<>>, probed |-> FALSE, ph |-> 0,
     kernelOffset |-> <<>>]

\* open(f, start, limit, offset, relocationSymbol) from elfNewFile on, before the
\* deferred rewindFile: the handle and the error of its return statement.
openBody(ef, filePath, start, limit, offset, relocationSymbol) ==
    LET scan == needsSymbols(filePath, start, limit, offset)
        kernelOffset == kernelOffsetOf(ef, filePath, start, limit, offset, relocationSymbol)
        ph == feasibilityHeader(ef, kernelOffset)
        gb == GetBase(ef, ph, kernelOffset, start, limit, offset)
        scanLog == [NoLog EXCEPT !.decoded = TRUE, !.scanned = scan]
        log == [scanLog EXCEPT !.sought = IF scan THEN soughtSymbol(relocationSymbol)
                                          ELSE <<>>,
                               !.probed = TRUE, !.ph = ph, !.kernelOffset = kernelOffset]
    IN  IF scan /\ symbolsFatal(ef.symErr)
        THEN [obj |-> <<>>, err |-> {ESymbols}, log |-> scanLog]
        ELSE IF gb.err # NoErr
        THEN [obj |-> <<>>, err |-> Wrap(EBaseId, gb.err), log |-> log]
        ELSE [obj |-> << [Path |-> filePath,
                          BuildID |-> IF ef.buildIDFails THEN <<>> ELSE ef.buildID,
                          m |-> << [start |-> start, limit |-> limit, offset |-> offset,
                                    kernelOffset |-> kernelOffset] >>] >>,
              err |-> NoErr, log |-> log]

\* open(f, start, limit, offset, relocationSymbol): its results, the position it
\* leaves the file at, and what its deferred rewindFile was given.
open(fileState, pos, ef, filePath, start, limit, offset, relocationSymbol, seekFails) ==
    IF fileState = "none"
    THEN [obj |-> <<>>, err |-> {ENilFile}, pos |-> pos,
          rewound |-> FALSE, inErr |-> NoErr, seekFailed |-> FALSE, log |-> NoLog]
    ELSE IF ~ef.valid
    THEN [obj |-> <<>>, err |-> {EDecode}, pos |-> pos,
          rewound |-> FALSE, inErr |-> NoErr, seekFailed |-> FALSE, log |-> NoLog]
    ELSE LET r == openBody(ef, filePath, start, limit, offset, relocationSymbol)
         IN  [obj |-> r.obj, err |-> rewindFile(r.err, seekFails),
              pos |-> rewindPos(pos, seekFails),
              rewound |-> TRUE, inErr |-> r.err, seekFailed |-> seekFails, log |-> r.log]

(* ---------------------------- computeBase ------------------------------ *)

\* Variant of outOfRange: only the start of the mapping is checked.
outOfRangeBelowOnly(m, a) == a < m.start

\* Variant of outOfRange: the limit is taken as inclusive.
outOfRangeInclusive(m, a) == a < m.start \/ a > m.limit

\* computeBase, line 231: addr < f.m.start || addr >= f.m.limit
outOfRange(m, a) == a < m.start \/ a >= m.limit

\* (f *ObjectFile) computeBase(addr): the error it returns, the base and isData
\* it stores (when it stores them), the position it leaves the file at, and what
\* its deferred rewindFile was given.
computeBase(o, ef, pos, addr, decodeFails, seekFails) ==
    LET none == [err |-> NoErr, stored |-> FALSE, base |-> 0, isData |-> FALSE,
                 pos |-> pos, rewound |-> FALSE, inErr |-> NoErr, seekFailed |-> FALSE]
    IN  IF o = <<>> \/ o[1].m = <<>>
        THEN none
        ELSE LET m == o[1].m[1]
             IN  IF outOfRange(m, addr)
                 THEN [none EXCEPT !.err = {EBounds}]
                 ELSE IF decodeFails
                 THEN [none EXCEPT !.err = {EDecode}]
                 ELSE LET sel == findProgramHeader(m, ef, addr)
                          gb == GetBase(ef, sel.ph, m.kernelOffset, m.start, m.limit, m.offset)
                          err == IF sel.err # NoErr THEN Wrap(EFindPh, sel.err)
                                 ELSE gb.err
                      IN  [err |-> rewindFile(err, seekFails),
                           stored |-> err = NoErr,
                           base |-> IF err = NoErr THEN gb.base ELSE 0,
                           isData |-> IF err = NoErr
                                      THEN sel.ph # 0 /\ "X" \notin ef.Progs[sel.ph].Flags
                                      ELSE FALSE,
                           pos |-> rewindPos(pos, seekFails),
                           rewound |-> TRUE, inErr |-> err, seekFailed |-> seekFails]

(* ------------------------------- state --------------------------------- *)

VARIABLES
    disk,          \* the file on disk: its bytes and what the ELF decoder makes of it
    args,          \* the arguments of the Open call
    file,          \* the *os.File f: whether it is open, and its read position
    pcOpen,        \* where the Open call is
    isELFRes,      \* what isELF(f) returned to Open
    innerRes,      \* what open(f, ...) returned to Open
    openLog,       \* what the call of open(f, ...) did
    pending,       \* the operands of Open's return statement
    openRes,       \* what Open returned
    rewinds,       \* per operation, what its deferred rewindFile was given and did
    checks,        \* the number of format checks made after Open
    baseOnce,      \* ObjectFile.baseOnce: the done flag and the holder of the mutex
    base,          \* ObjectFile.base
    baseErr,       \* ObjectFile.baseErr
    isData,        \* ObjectFile.isData
    pc,            \* where each caller of ObjAddr is
    addr,          \* the address each caller passed
    res,           \* what ObjAddr returned to each caller
    computeCount,  \* the number of executions of computeBase
    computed,      \* the caller and address of the last execution of computeBase
    selMap,        \* segment selection alone: the mapping
    selElf,        \* segment selection alone: the decoded ELF file
    selRes,        \* segment selection alone: per queried address, the result
    clObj,         \* Close alone: the handle, with the state of its two files
    clCall,        \* Close alone: the err variable of the Close call in progress
    clRes,         \* Close alone: what each Close call returned, in order
    clTried,       \* Close alone: the files the last Close call tried to close, each
                   \* with whether closing it failed
    relName,       \* relocation symbol alone: the name of the mapping file
    relSyms,       \* relocation symbol alone: the symbols of the file
    relOut,        \* relocation symbol alone: the name derived, the name searched
                   \* for and the value found
    ccStore,       \* loading cache: the value stored per key, if any
    sfg,           \* loading cache: singleflight.Group.m, the call in flight per string
    sfCalls,       \* loading cache: the singleflight call each getter created
    ccPc,          \* loading cache: where each getter is in Get
    ccKey,         \* loading cache: the key each getter asked for
    ccCall,        \* loading cache: the singleflight call each getter runs or waits for
    ccSeen,        \* loading cache: the load of its key in flight when the getter missed
    ccRes,         \* loading cache: what Get returned to each getter
    ccLoads        \* loading cache: the number of loader calls started

lifeVars ==
    <<disk, args, file, pcOpen, isELFRes, innerRes, openLog, pending, openRes, rewinds,
      checks, baseOnce, base, baseErr, isData, pc, addr, res, computeCount, computed>>

selVars == <<selMap, selElf, selRes>>

\* The variables the life of a handle (Open, ObjAddr) leaves alone.
clVars == <<clObj, clCall, clRes, clTried>>

relVars == <<relName, relSyms, relOut>>

\* The variables segment selection and Close leave alone besides each other's.
cacheVars == <<ccStore, sfg, sfCalls, ccPc, ccKey, ccCall, ccSeen, ccRes, ccLoads>>

extraVars == <<relVars, cacheVars>>

auxVars == <<selVars, clVars, extraVars>>

vars == <<lifeVars, auxVars>>

Callers == 1..NumCallers

(* ------------------------------ inputs --------------------------------- *)

Prog(type, off, memsz, flags) ==
    [Type |-> type, Off |-> off, Memsz |-> memsz, Flags |-> flags]

\* One executable segment.
ProgsOne == << Prog("PT_LOAD", 0, 2 * PageSize, {"R", "X"}) >>

\* A text and a data segment, contiguous in the file.
ProgsTwo ==
    << Prog("PT_LOAD", 0, PageSize, {"R", "X"}),
       Prog("PT_LOAD", PageSize, PageSize, {"R", "W"}) >>

\* No loadable segment.
ProgsNote == << Prog("PT_NOTE", 0, PageSize, {"R"}) >>

Ok(b) == [base |-> b, err |-> NoErr]

Failed == [base |-> 0, err |-> {EGetBase}]

\* GetBase succeeds for every header, with a base of its own for each.
BaseAll(progs) == [ph \in 0..Len(progs) |-> Ok(SubU(PageSize, ph * PageSize))]

\* GetBase fails for header k.
BaseFailsAt(progs, k) == [BaseAll(progs) EXCEPT ![k] = Failed]

KernelSymbols ==
    << [Name |-> SymStext, Value |-> PageSize],
       [Name |-> SymText, Value |-> 2 * PageSize] >>

\* A symbol table without _stext.
TextSymbolOnly == << [Name |-> SymText, Value |-> 2 * PageSize] >>

Elf(progs, text, baseTab, symErr, syms, buildIDFails) ==
    [bytes |-> ELFMAG \o <<2, 1>>, valid |-> TRUE, Progs |-> progs, text |-> text,
     base |-> baseTab, symErr |-> symErr, syms |-> syms,
     buildID |-> <<"i", "d">>, buildIDFails |-> buildIDFails]

NotElf(bytes) ==
    [bytes |-> bytes, valid |-> FALSE, Progs |-> <<>>, text |-> 0,
     base |-> BaseAll(<<>>), symErr |-> "ErrNoSymbols", syms |-> <<>>,
     buildID |-> <<>>, buildIDFails |-> TRUE]

Disks ==
    { Elf(ProgsOne, 1, BaseAll(ProgsOne), "nil", KernelSymbols, FALSE),
      Elf(ProgsTwo, 1, BaseAll(ProgsTwo), "nil", KernelSymbols, FALSE),
      Elf(ProgsTwo, 1, BaseAll(ProgsTwo), "ErrNoSymbols", <<>>, TRUE),
      Elf(ProgsTwo, 1, BaseFailsAt(ProgsTwo, 2), "ErrNoSymbols", <<>>, FALSE),
      Elf(ProgsTwo, 1, BaseFailsAt(ProgsTwo, 1), "nil", KernelSymbols, FALSE),
      Elf(ProgsTwo, 1, BaseAll(ProgsTwo), "other", <<>>, FALSE),
      Elf(ProgsNote, 0, BaseAll(ProgsNote), "ErrNoSymbols", <<>>, FALSE),
      Elf(ProgsOne, 1, BaseAll(ProgsOne), "nil", TextSymbolOnly, TRUE),
      NotElf(<<>>),
      NotElf(<<127, 69, 76>>),
      NotElf(<<77, 90, 144, 0, 3>>),
      NotElf(ELFMAG) }

PathApp == <<"a">>

PathVmlinux == <<"/">> \o Vmlinux

PathKallsyms == KallsymsPrefix \o SymText

OpenCall(path, start, limit, offset) ==
    [path |-> path, start |-> start, limit |-> limit, offset |-> offset]

OpenCalls ==
    { OpenCall(PathApp, PageSize, 3 * PageSize, 0),
      OpenCall(PathApp, PageSize, 2 * PageSize, PageSize),
      OpenCall(PathApp, PageSize, 2 * PageSize, 4 * PageSize),
      OpenCall(PathApp, 2 * PageSize, PageSize, 0),
      OpenCall(PathApp, PageSize, PageSize, 0),
      OpenCall(PathApp, PageSize, 3 * PageSize + 1, 0),
      OpenCall(PathApp, PageSize, SignBit + PageSize, 0),
      OpenCall(PathVmlinux, PageSize, 3 * PageSize, 0),
      OpenCall(PathKallsyms, PageSize, 3 * PageSize, 0),
      OpenCall(PathKallsyms, PageSize + 1, 3 * PageSize, 0) }

\* The addresses passed to ObjAddr.
Addrs == {0, PageSize, 2 * PageSize, 3 * PageSize}

Ops == {"isELF", "open", "Open", "computeBase"}

NoRewind == [called |-> FALSE, inErr |-> NoErr, seekFailed |-> FALSE]

Rewound(inErr, seekFailed) ==
    [called |-> TRUE, inErr |-> inErr, seekFailed |-> seekFailed]

NoResult == [obj |-> <<>>, err |-> NoErr]

NoArgs == OpenCall(<<>>, 0, 0, 0)

NoRes == [val |-> 0, err |-> NoErr]

LifeStart ==
    /\ args = NoArgs
    /\ file = [state |-> "none", pos |-> 0]
    /\ pcOpen = "start"
    /\ isELFRes = [ok |-> FALSE, err |-> NoErr]
    /\ innerRes = NoResult
    /\ openLog = NoLog
    /\ pending = NoResult
    /\ openRes = NoResult
    /\ rewinds = [op \in Ops |-> NoRewind]
    /\ checks = 0
    /\ baseOnce = [done |-> FALSE, m |-> 0]
    /\ base = 0
    /\ baseErr = NoErr
    /\ isData = FALSE
    /\ pc = [t \in Callers |-> "idle"]
    /\ addr = [t \in Callers |-> 0]
    /\ res = [t \in Callers |-> NoRes]
    /\ computeCount = 0
    /\ computed = <<>>

LifeInit == disk \in Disks /\ LifeStart

\* No handle is being opened or used.
LifeIdle == disk = NotElf(<<>>) /\ LifeStart

onceVars == <<baseOnce, base, baseErr, isData, pc, addr, res, computeCount, computed>>

(* ------------------------------- Open ---------------------------------- *)

\* Open, line 73-76: os.Open(filePath).
OsOpen ==
    /\ pcOpen = "start"
    /\ \E c \in OpenCalls, openFails \in BOOLEAN :
         /\ args' = c
         /\ IF openFails
            THEN /\ openRes' = [obj |-> <<>>, err |-> Wrap(EOpen, {"os.Open"})]
                 /\ pcOpen' = "done"
                 /\ file' = file
            ELSE /\ file' = [state |-> "open", pos |-> 0]
                 /\ pcOpen' = "isELF"
                 /\ openRes' = openRes
    /\ UNCHANGED <<auxVars, disk, isELFRes, innerRes, openLog, pending, rewinds, checks,
                   onceVars>>

\* Open, line 82: ok, err := isELF(f).
IsELF ==
    /\ pcOpen = "isELF"
    /\ \E readFails \in BOOLEAN, seekFails \in BOOLEAN :
         LET r == isELF(disk.bytes, file.pos, readFails, seekFails)
         IN  /\ isELFRes' = [ok |-> r.ok, err |-> r.err]
             /\ file' = [file EXCEPT !.pos = r.pos]
             /\ rewinds' = [rewinds EXCEPT !["isELF"] = Rewound(r.inErr, seekFails)]
    /\ pcOpen' = "checked"
    /\ UNCHANGED <<auxVars, disk, args, innerRes, openLog, pending, openRes, checks,
                   onceVars>>

\* Open, lines 83-96: the checks on isELF's result, then open(f, ...), up to the
\* return statement.
OpenELF ==
    /\ pcOpen = "checked"
    /\ IF isELFRes.err # NoErr
       THEN /\ pending' = [obj |-> <<>>, err |-> isELFRes.err]
            /\ UNCHANGED <<innerRes, openLog, file, rewinds>>
       ELSE IF ~isELFRes.ok
       THEN /\ pending' = [obj |-> <<>>, err |-> {EFormat}]
            /\ UNCHANGED <<innerRes, openLog, file, rewinds>>
       ELSE \E seekFails \in BOOLEAN :
              LET r == open(file.state, file.pos, disk, args.path, args.start, args.limit,
                            args.offset, kernelRelocationSymbol(args.path), seekFails)
              IN  /\ innerRes' = [obj |-> r.obj, err |-> r.err]
                  /\ openLog' = r.log
                  /\ file' = [file EXCEPT !.pos = r.pos]
                  /\ rewinds' = IF r.rewound
                                THEN [rewinds EXCEPT
                                        !["open"] = Rewound(r.inErr, r.seekFailed)]
                                ELSE rewinds
                  /\ pending' = IF r.err # NoErr
                                THEN [obj |-> <<>>, err |-> Wrap(EReadingELF, r.err)]
                                ELSE [obj |-> r.obj, err |-> NoErr]
    /\ pcOpen' = "defer"
    /\ UNCHANGED <<auxVars, disk, args, isELFRes, openRes, checks, onceVars>>

\* Open, lines 77-79: the deferred rewindFile, then the return to the caller.
OpenReturn ==
    /\ pcOpen = "defer"
    /\ \E seekFails \in BOOLEAN :
         LET err == rewindFile(pending.err, seekFails)
         IN  /\ openRes' = [obj |-> pending.obj, err |-> err]
             /\ file' = [file EXCEPT !.pos = rewindPos(file.pos, seekFails)]
             /\ rewinds' = [rewinds EXCEPT !["Open"] = Rewound(pending.err, seekFails)]
    /\ pcOpen' = "done"
    /\ UNCHANGED <<auxVars, disk, args, isELFRes, innerRes, openLog, pending, checks,
                   onceVars>>

\* The caller holds a handle it may use: Open returned one, with no error.
Opened ==
    /\ pcOpen = "done"
    /\ openRes.err = NoErr
    /\ openRes.obj # <<>>

(* ------------------------------ ObjAddr -------------------------------- *)

openVars == <<disk, args, pcOpen, isELFRes, innerRes, openLog, pending, openRes, checks>>

\* A format check on the handle's file after Open: isELF(o.File), before the
\* handle is used to translate addresses.
FormatCheck ==
    /\ Opened
    /\ checks < MaxChecks
    /\ \A t \in Callers : pc[t] = "idle"
    /\ \E readFails \in BOOLEAN, seekFails \in BOOLEAN :
         LET r == isELF(disk.bytes, file.pos, readFails, seekFails)
         IN  /\ isELFRes' = [ok |-> r.ok, err |-> r.err]
             /\ file' = [file EXCEPT !.pos = r.pos]
             /\ rewinds' = [rewinds EXCEPT !["isELF"] = Rewound(r.inErr, seekFails)]
    /\ checks' = checks + 1
    /\ UNCHANGED <<auxVars, disk, args, pcOpen, innerRes, openLog, pending, openRes,
                   onceVars>>

\* sync.Once.Do, fast path: o.done.Load() == 0 sends the caller to doSlow.
onceFastPath(once) == once.done

\* Variant of onceMayLock: no mutual exclusion.
onceMayLockAlways(once) == TRUE

\* sync.Once.doSlow: o.m.Lock() is granted when no caller holds the mutex.
onceMayLock(once) == once.m = 0

\* Variant of onceMustRun: every caller that reaches doSlow runs the function.
onceMustRunAlways(once) == TRUE

\* sync.Once.doSlow: if o.done.Load() == 0 { defer o.done.Store(1); f() }
onceMustRun(once) == ~once.done

\* ObjAddr, lines 218-221: the result, from the stored outcome.
objAddrResult(a, b, e) ==
    IF e # NoErr
    THEN [val |-> 0, err |-> e]
    ELSE [val |-> SubU(a, b), err |-> NoErr]

\* ObjAddr(addr) is called: f.baseOnce.Do(...) reads the done flag.
Call(t) ==
    /\ Opened
    /\ checks = 0
    /\ pc[t] = "idle"
    /\ \E a \in Addrs : addr' = [addr EXCEPT ![t] = a]
    /\ pc' = [pc EXCEPT ![t] = IF onceFastPath(baseOnce) THEN "ret" ELSE "lock"]
    /\ UNCHANGED <<auxVars, openVars, file, rewinds, baseOnce, base, baseErr, isData, res,
                   computeCount, computed>>

\* doSlow: o.m.Lock().
Lock(t) ==
    /\ pc[t] = "lock"
    /\ onceMayLock(baseOnce)
    /\ baseOnce' = [baseOnce EXCEPT !.m = t]
    /\ pc' = [pc EXCEPT ![t] = "slow"]
    /\ UNCHANGED <<auxVars, openVars, file, rewinds, base, baseErr, isData, addr, res,
                   computeCount, computed>>

\* doSlow: the second look at the done flag and, when it is clear, the function
\* given to Do: f.baseErr = f.computeBase(addr).
DoSlow(t) ==
    /\ pc[t] = "slow"
    /\ IF onceMustRun(baseOnce)
       THEN \E decodeFails \in BOOLEAN, seekFails \in BOOLEAN :
              LET r == computeBase(openRes.obj, disk, file.pos, addr[t], decodeFails,
                                   seekFails)
              IN  /\ baseErr' = r.err
                  /\ base' = IF r.stored THEN r.base ELSE base
                  /\ isData' = IF r.stored THEN r.isData ELSE isData
                  /\ file' = [file EXCEPT !.pos = r.pos]
                  /\ rewinds' = IF r.rewound
                                THEN [rewinds EXCEPT !["computeBase"] =
                                        Rewound(r.inErr, r.seekFailed)]
                                ELSE rewinds
                  /\ computeCount' = computeCount + 1
                  /\ computed' = <<[by |-> t, addr |-> addr[t]]>>
                  /\ pc' = [pc EXCEPT ![t] = "store"]
       ELSE /\ pc' = [pc EXCEPT ![t] = "unlock"]
            /\ UNCHANGED <<baseErr, base, isData, file, rewinds, computeCount, computed>>
    /\ UNCHANGED <<auxVars, openVars, baseOnce, addr, res>>

\* Variant of onceStore: a failed computation is not recorded as done.
onceStoreOnSuccess(once) == [once EXCEPT !.done = (baseErr = NoErr)]

\* o.done.Store(1)
onceStore(once) == [once EXCEPT !.done = TRUE]

\* doSlow: the deferred o.done.Store(1).
StoreDone(t) ==
    /\ pc[t] = "store"
    /\ baseOnce' = onceStore(baseOnce)
    /\ pc' = [pc EXCEPT ![t] = "unlock"]
    /\ UNCHANGED <<auxVars, openVars, file, rewinds, base, baseErr, isData, addr, res,
                   computeCount, computed>>

\* Variant of onceUnlock: the mutex is not released.
onceUnlockKeeps(once) == once

\* o.m.Unlock()
onceUnlock(once) == [once EXCEPT !.m = 0]

\* doSlow: the deferred o.m.Unlock().
Unlock(t) ==
    /\ pc[t] = "unlock"
    /\ baseOnce' = onceUnlock(baseOnce)
    /\ pc' = [pc EXCEPT ![t] = "ret"]
    /\ UNCHANGED <<auxVars, openVars, file, rewinds, base, baseErr, isData, addr, res,
                   computeCount, computed>>

\* ObjAddr, lines 218-221: the caller reads the stored outcome and returns.
Return(t) ==
    /\ pc[t] = "ret"
    /\ res' = [res EXCEPT ![t] = objAddrResult(addr[t], base, baseErr)]
    /\ pc' = [pc EXCEPT ![t] = "returned"]
    /\ UNCHANGED <<auxVars, openVars, file, rewinds, baseOnce, base, baseErr, isData, addr,
                   computeCount, computed>>

(* ------------------------ segment selection alone ---------------------- *)

\* Largest number of program headers of an ELF file.
MaxProgs == 2

SelStarts == {PageSize, 2 * PageSize}

SelLimits == {PageSize, 3 * PageSize, SignBit, SignBit + PageSize}

SelOffsets == {0, PageSize, 2 * PageSize}

SelKernelOffsets == {<<>>, <<PageSize>>}

SelHeaders ==
    { Prog("PT_LOAD", 0, PageSize, {"R", "X"}),
      Prog("PT_LOAD", PageSize, PageSize, {"R", "W"}),
      Prog("PT_LOAD", 0, 2 * PageSize, {"R", "X"}),
      Prog("PT_NOTE", 0, PageSize, {"R"}) }

SelProgs == UNION { [1..n -> SelHeaders] : n \in 0..MaxProgs }

SelAddrs == {0, PageSize, 2 * PageSize, 3 * PageSize - 1}

SelIdle ==
    /\ selMap = [start |-> 0, limit |-> 0, offset |-> 0, kernelOffset |-> <<>>]
    /\ selElf = [Progs |-> <<>>, text |-> 0]
    /\ selRes = <<>>

SelInit ==
    /\ selMap \in [start : SelStarts, limit : SelLimits, offset : SelOffsets,
                   kernelOffset : SelKernelOffsets]
    /\ \E progs \in SelProgs :
         \E text \in {0} \cup {i \in 1..Len(progs) : progs[i].Type = "PT_LOAD"} :
           selElf = [Progs |-> progs, text |-> text]
    /\ selRes = <<>>

\* m.findProgramHeader(ef, addr) is called with one more address.
FindProgramHeader ==
    /\ \E a \in SelAddrs \ DOMAIN selRes :
         selRes' = [b \in DOMAIN selRes \cup {a} |->
                      IF b = a THEN findProgramHeader(selMap, selElf, a) ELSE selRes[b]]
    /\ UNCHANGED <<selMap, selElf, lifeVars, clVars, extraVars>>

(* ------------------------------- Close --------------------------------- *)

\* Largest number of Close calls on a handle.
MaxCloses == 3

\* (*os.File).Close(): the file is closed afterwards; the call fails on an I/O
\* failure, and always on a file that is closed already.
fileClose(state, fails, msg) ==
    [state |-> "closed",
     err |-> IF state = "closed" THEN {msg, "file already closed"}
             ELSE IF fails THEN {msg, EIO}
             ELSE NoErr]

\* Variant of closeDebuginfo: the companion file is left alone once the primary
\* close has failed.
closeDebuginfoUnlessFailed(o, err, fails) ==
    IF o # <<>> /\ o[1].DebuginfoFile # "nil" /\ err = NoErr
    THEN LET c == fileClose(o[1].DebuginfoFile, fails, ECloseDebug)
         IN  [o |-> <<[o[1] EXCEPT !.DebuginfoFile = c.state]>>,
              err |-> Join(err, c.err), tried |-> {<<"DebuginfoFile", c.err # NoErr>>}]
    ELSE [o |-> o, err |-> err, tried |-> {}]

\* Close, lines 131-133: the primary file.
closePrimary(o, err, fails) ==
    IF o # <<>> /\ o[1].File # "nil"
    THEN LET c == fileClose(o[1].File, fails, EClose)
         IN  [o |-> <<[o[1] EXCEPT !.File = c.state]>>,
              err |-> Join(err, c.err), tried |-> {<<"File", c.err # NoErr>>}]
    ELSE [o |-> o, err |-> err, tried |-> {}]

\* Close, lines 135-137: the companion debuginfo file.
closeDebuginfo(o, err, fails) ==
    IF o # <<>> /\ o[1].DebuginfoFile # "nil"
    THEN LET c == fileClose(o[1].DebuginfoFile, fails, ECloseDebug)
         IN  [o |-> <<[o[1] EXCEPT !.DebuginfoFile = c.state]>>,
              err |-> Join(err, c.err), tried |-> {<<"DebuginfoFile", c.err # NoErr>>}]
    ELSE [o |-> o, err |-> err, tried |-> {}]

FileStates == {"nil", "open", "closed"}

ClIdle ==
    /\ clObj = <<>>
    /\ clCall = <<>>
    /\ clRes = <<>>
    /\ clTried = {}

\* A nil handle, or a handle whose File and DebuginfoFile are each nil, open or
\* closed already.
ClInit ==
    /\ clObj \in {<<>>} \cup {<<[File |-> a, DebuginfoFile |-> b]>> : a \in FileStates,
                                                                     b \in FileStates}
    /\ clCall = <<>>
    /\ clRes = <<>>
    /\ clTried = {}

\* The surrounding agent sets the DebuginfoFile field of the handle.
AttachDebuginfo ==
    /\ clObj # <<>>
    /\ clCall = <<>>
    /\ clObj[1].DebuginfoFile = "nil"
    /\ clObj' = <<[clObj[1] EXCEPT !.DebuginfoFile = "open"]>>
    /\ UNCHANGED <<clCall, clRes, clTried, lifeVars, selVars, extraVars>>

\* (o *ObjectFile) Close(), lines 130-133: var err error, then the primary file.
CloseFile ==
    /\ clCall = <<>>
    /\ Len(clRes) < MaxCloses
    /\ \E fails \in BOOLEAN :
         LET p == closePrimary(clObj, NoErr, fails)
         IN  /\ clObj' = p.o
             /\ clCall' = <<p.err>>
             /\ clTried' = p.tried
    /\ UNCHANGED <<clRes, lifeVars, selVars, extraVars>>

\* (o *ObjectFile) Close(), lines 135-139: the debuginfo file, then return err.
CloseDebuginfoFile ==
    /\ clCall # <<>>
    /\ \E fails \in BOOLEAN :
         LET d == closeDebuginfo(clObj, clCall[1], fails)
         IN  /\ clObj' = d.o
             /\ clRes' = Append(clRes, d.err)
             /\ clTried' = clTried \cup d.tried
    /\ clCall' = <<>>
    /\ UNCHANGED <<lifeVars, selVars, extraVars>>

(* ---------------------- relocation symbol alone ------------------------ *)

\* How the names of mapping files start, and how they go on.
RelHeads ==
    { <<>>, KallsymsPrefix, SubSeq(KallsymsPrefix, 1, Len(KallsymsPrefix) - 1),
      <<"x">> \o KallsymsPrefix, <<"/">> \o Vmlinux, <<"[">> }

RelTails == { <<>>, SymText, SymStext, <<"_">>, KallsymsPrefix \o SymText }

RelNames == { h \o t : h \in RelHeads, t \in RelTails }

RelSymbolTables ==
    { <<>>, KernelSymbols, TextSymbolOnly,
      << [Name |-> SymStext, Value |-> 3 * PageSize] >> \o KernelSymbols }

RelIdle ==
    /\ relName = <<>>
    /\ relSyms = <<>>
    /\ relOut = <<>>

RelInit ==
    /\ relName \in RelNames
    /\ relSyms \in RelSymbolTables
    /\ relOut = <<>>

\* Open, line 90, and the scan of open, lines 183-192: the relocation symbol of
\* the mapping file, the name the scan looks for and the value it finds.
KernelRelocationSymbol ==
    /\ relOut = <<>>
    /\ LET symbol == kernelRelocationSymbol(relName)
           sought == soughtSymbol(symbol)
       IN  relOut' = << [symbol |-> symbol, sought |-> sought,
                         found |-> findSymbol(relSyms, sought)] >>
    /\ UNCHANGED <<relName, relSyms, lifeVars, selVars, clVars, cacheVars>>

(* --------------------------- loading cache ----------------------------- *)

\* The number of goroutines calling Get on the cache, once each.
NumGetters == 2

Getters == 1..NumGetters

\* A cache.Key is an interface{} value: here a string or an int.
StrKey(str) == [kind |-> "string", str |-> str, int |-> 0]

IntKey(n) == [kind |-> "int", str |-> <<>>, int |-> n]

CacheKeys == { StrKey(<<"1", "0">>), IntKey(10), IntKey(1) }

Digit(d) == <<"0", "1", "2", "3", "4", "5", "6", "7", "8", "9">>[d + 1]

\* fmt.Sprintf("%v", k) for an int: its decimal digits.
RECURSIVE Itoa(_)
Itoa(n) == IF n < 10 THEN <<Digit(n)>> ELSE Itoa(n \div 10) \o <<Digit(n % 10)>>

\* fmt.Sprintf("%v", k)
formatV(k) == IF k.kind = "string" THEN k.str ELSE Itoa(k.int)

\* onceLoader, lines 22-27: the singleflight key of a cache key.
singleflightKey(k) == IF k.kind = "string" THEN k.str ELSE formatV(k)

SfKeys == { singleflightKey(k) : k \in CacheKeys }

\* A singleflight call: the key the loader was given, and its result once the
\* loader has returned.
NoCall == [state |-> "none", arg |-> IntKey(0), val |-> <<>>, err |-> FALSE]

NoValue == [val |-> <<>>, err |-> FALSE]

\* loader(k), call number n: a value that tells for which key and by which call
\* it was made, or an error.
loaderResult(k, n, fails) ==
    IF fails THEN [val |-> <<>>, err |-> TRUE]
    ELSE [val |-> <<[of |-> k, load |-> n]>>, err |-> FALSE]

\* Variant of sfInFlight: no call is ever found in flight.
sfInFlightNever(g, key) == FALSE

\* singleflight.Group.Do: if c, ok := g.m[key]; ok
sfInFlight(g, key) == g[key] # 0

CacheInit ==
    /\ ccStore = [k \in CacheKeys |-> <<>>]
    /\ sfg = [key \in SfKeys |-> 0]
    /\ sfCalls = [t \in Getters |-> NoCall]
    /\ ccPc = [t \in Getters |-> "idle"]
    /\ ccKey = [t \in Getters |-> IntKey(0)]
    /\ ccCall = [t \in Getters |-> 0]
    /\ ccSeen = [t \in Getters |-> 0]
    /\ ccRes = [t \in Getters |-> NoValue]
    /\ ccLoads = 0

CacheIdle == CacheInit

\* The load of key k in flight, 0 when there is none.
loadInFlight(k) ==
    LET c == sfg[singleflightKey(k)]
    IN  IF c # 0 /\ sfCalls[c].arg = k THEN c ELSE 0

\* LoadingCache.Get(k): the lookup. A hit returns the stored value; on a miss the
\* cache calls its loader, onceLoader.
CacheGet(t) ==
    /\ ccPc[t] = "idle"
    /\ \E k \in CacheKeys :
         /\ ccKey' = [ccKey EXCEPT ![t] = k]
         /\ IF ccStore[k] # <<>>
            THEN /\ ccRes' = [ccRes EXCEPT ![t] = [val |-> ccStore[k], err |-> FALSE]]
                 /\ ccPc' = [ccPc EXCEPT ![t] = "done"]
                 /\ ccSeen' = ccSeen
            ELSE /\ ccPc' = [ccPc EXCEPT ![t] = "missed"]
                 /\ ccSeen' = [ccSeen EXCEPT ![t] = loadInFlight(k)]
                 /\ ccRes' = ccRes
    /\ UNCHANGED <<ccStore, sfg, sfCalls, ccCall, ccLoads, lifeVars, selVars, clVars,
                   relVars>>

\* onceLoader, lines 22-31: sfg.Do(key, ...) under the mutex of the group: the
\* getter joins the call in flight for the string, or registers a call of its own
\* and starts loader(k).
SfDo(t) ==
    /\ ccPc[t] = "missed"
    /\ LET key == singleflightKey(ccKey[t])
       IN  IF sfInFlight(sfg, key)
           THEN /\ ccCall' = [ccCall EXCEPT ![t] = sfg[key]]
                /\ ccPc' = [ccPc EXCEPT ![t] = "wait"]
                /\ UNCHANGED <<sfg, sfCalls, ccLoads>>
           ELSE /\ ccCall' = [ccCall EXCEPT ![t] = t]
                /\ sfg' = [sfg EXCEPT ![key] = t]
                /\ sfCalls' = [sfCalls EXCEPT ![t] = [NoCall EXCEPT !.state = "running",
                                                                     !.arg = ccKey[t]]]
                /\ ccLoads' = ccLoads + 1
                /\ ccPc' = [ccPc EXCEPT ![t] = "loading"]
    /\ UNCHANGED <<ccStore, ccKey, ccSeen, ccRes, lifeVars, selVars, clVars, relVars>>

\* Line 32: loader(k) returns, to the function given to Do.
Loader(t) ==
    /\ ccPc[t] = "loading"
    /\ \E fails \in BOOLEAN :
         LET r == loaderResult(ccKey[t], ccLoads, fails)
         IN  sfCalls' = [sfCalls EXCEPT ![t] = [@ EXCEPT !.state = "loaded",
                                                        !.val = r.val, !.err = r.err]]
    /\ ccPc' = [ccPc EXCEPT ![t] = "finish"]
    /\ UNCHANGED <<ccStore, sfg, ccKey, ccCall, ccSeen, ccRes, ccLoads, lifeVars, selVars,
                   clVars, relVars>>

\* singleflight doCall, after the function: under the mutex the waiters are
\* released and the call is removed from the group; Do returns c.val, c.err.
SfDone(t) ==
    /\ ccPc[t] = "finish"
    /\ LET key == singleflightKey(ccKey[t])
       IN  sfg' = IF sfg[key] = t THEN [sfg EXCEPT ![key] = 0] ELSE sfg
    /\ sfCalls' = [sfCalls EXCEPT ![t] = [@ EXCEPT !.state = "done"]]
    /\ ccRes' = [ccRes EXCEPT ![t] = [val |-> sfCalls[t].val, err |-> sfCalls[t].err]]
    /\ ccPc' = [ccPc EXCEPT ![t] = "store"]
    /\ UNCHANGED <<ccStore, ccKey, ccCall, ccSeen, ccLoads, lifeVars, selVars, clVars,
                   relVars>>

\* singleflight Do, the joined call: c.wg.Wait(), then return c.val, c.err.
SfWait(t) ==
    /\ ccPc[t] = "wait"
    /\ sfCalls[ccCall[t]].state = "done"
    /\ ccRes' = [ccRes EXCEPT ![t] = [val |-> sfCalls[ccCall[t]].val,
                                      err |-> sfCalls[ccCall[t]].err]]
    /\ ccPc' = [ccPc EXCEPT ![t] = "store"]
    /\ UNCHANGED <<ccStore, sfg, sfCalls, ccKey, ccCall, ccSeen, ccLoads, lifeVars, selVars,
                   clVars, relVars>>

\* LoadingCache.Get(k), after the loader: a value loaded without error is stored
\* under k, and Get returns what the loader returned.
CacheStore(t) ==
    /\ ccPc[t] = "store"
    /\ ccStore' = IF ccRes[t].err THEN ccStore
                  ELSE [ccStore EXCEPT ![ccKey[t]] = ccRes[t].val]
    /\ ccPc' = [ccPc EXCEPT ![t] = "done"]
    /\ UNCHANGED <<sfg, sfCalls, ccKey, ccCall, ccSeen, ccRes, ccLoads, lifeVars, selVars,
                   clVars, relVars>>

(* --------------------------- specification ----------------------------- *)

Init == LifeInit /\ SelIdle /\ ClIdle /\ RelIdle /\ CacheIdle

Next ==
    \/ OsOpen
    \/ IsELF
    \/ OpenELF
    \/ OpenReturn
    \/ FormatCheck
    \/ \E t \in Callers : Call(t)
    \/ \E t \in Callers : Lock(t)
    \/ \E t \in Callers : DoSlow(t)
    \/ \E t \in Callers : StoreDone(t)
    \/ \E t \in Callers : Unlock(t)
    \/ \E t \in Callers : Return(t)

Spec == Init /\ [][Next]_vars

\* Scheduling is fair: a caller that can take a step of ObjAddr takes it in the
\* end. No step of Do waits on anything but the mutex, and a caller waiting for
\* the mutex gets it once it stays free.
ObjAddrFairness ==
    \A t \in Callers :
      /\ WF_vars(Lock(t))
      /\ WF_vars(DoSlow(t))
      /\ WF_vars(StoreDone(t))
      /\ WF_vars(Unlock(t))
      /\ WF_vars(Return(t))

\* ObjAddr on its own, under fair scheduling: the callers share a handle that
\* Open has just returned, every step of Open having succeeded.
OnceDisks ==
    { Elf(ProgsTwo, 1, BaseAll(ProgsTwo), "nil", KernelSymbols, FALSE),
      Elf(ProgsTwo, 1, BaseFailsAt(ProgsTwo, 2), "ErrNoSymbols", <<>>, FALSE) }

OnceCalls ==
    { OpenCall(PathApp, PageSize, 3 * PageSize, 0),
      OpenCall(PathApp, 2 * PageSize, PageSize, 0) }

OnceInit ==
    /\ disk \in OnceDisks
    /\ args \in OnceCalls
    /\ file = [state |-> "open", pos |-> 0]
    /\ pcOpen = "done"
    /\ isELFRes = [ok |-> TRUE, err |-> NoErr]
    /\ LET r == open("open", 0, disk, args.path, args.start, args.limit, args.offset,
                     kernelRelocationSymbol(args.path), FALSE)
       IN  /\ r.err = NoErr
           /\ innerRes = [obj |-> r.obj, err |-> NoErr]
           /\ openLog = r.log
           /\ pending = [obj |-> r.obj, err |-> NoErr]
           /\ openRes = [obj |-> r.obj, err |-> NoErr]
    /\ rewinds = [op \in Ops |-> IF op = "computeBase" THEN NoRewind
                                  ELSE Rewound(NoErr, FALSE)]
    /\ checks = 0
    /\ baseOnce = [done |-> FALSE, m |-> 0]
    /\ base = 0
    /\ baseErr = NoErr
    /\ isData = FALSE
    /\ pc = [t \in Callers |-> "idle"]
    /\ addr = [t \in Callers |-> 0]
    /\ res = [t \in Callers |-> NoRes]
    /\ computeCount = 0
    /\ computed = <<>>
    /\ SelIdle
    /\ ClIdle
    /\ RelIdle
    /\ CacheIdle

OnceNext ==
    \/ \E t \in Callers : Call(t)
    \/ \E t \in Callers : Lock(t)
    \/ \E t \in Callers : DoSlow(t)
    \/ \E t \in Callers : StoreDone(t)
    \/ \E t \in Callers : Unlock(t)
    \/ \E t \in Callers : Return(t)

SpecOnceFair == OnceInit /\ [][OnceNext]_vars /\ ObjAddrFairness

\* Segment selection on its own: findProgramHeader applied to mappings, ELF files
\* and addresses drawn from small sets.
FindInit == LifeIdle /\ SelInit /\ ClIdle /\ RelIdle /\ CacheIdle

FindNext == FindProgramHeader

SpecFind == FindInit /\ [][FindNext]_vars

\* Close on its own, on handles of every shape.
CloseInit == LifeIdle /\ SelIdle /\ ClInit /\ RelIdle /\ CacheIdle

CloseNext == AttachDebuginfo \/ CloseFile \/ CloseDebuginfoFile

SpecClose == CloseInit /\ [][CloseNext]_vars

\* kernelRelocationSymbol and the choice of the name to scan for, on their own.
NameInit == LifeIdle /\ SelIdle /\ ClIdle /\ RelInit /\ CacheIdle

NameNext == KernelRelocationSymbol

SpecName == NameInit /\ [][NameNext]_vars

\* The loading cache of NewLoadingOnceCache, with concurrent getters.
CacheSpecInit == LifeIdle /\ SelIdle /\ ClIdle /\ RelIdle /\ CacheInit

CacheNext ==
    \/ \E t \in Getters : CacheGet(t)
    \/ \E t \in Getters : SfDo(t)
    \/ \E t \in Getters : Loader(t)
    \/ \E t \in Getters : SfDone(t)
    \/ \E t \in Getters : SfWait(t)
    \/ \E t \in Getters : CacheStore(t)

SpecCache == CacheSpecInit /\ [][CacheNext]_vars

(* ------------------------------ claims --------------------------------- *)

\* The mapping of the handle Open returned.
HandleMapping == openRes.obj[1].m[1]

\* a < mapping.start or a >= mapping.limit, for the handle's mapping.
OutsideMapping(a) == a < HandleMapping.start \/ a >= HandleMapping.limit

Returned(t) == pc[t] = "returned"

Returning(t) == pc[t] = "ret" /\ pc'[t] = "returned"

\* C1: for any number of concurrent ObjAddr calls on a freshly opened handle,
\* with the same or different addresses, computeBase is executed exactly once in
\* every interleaving, and every call returns a result derived from the outcome
\* (base or error) that execution stored.
C1_ExactlyOnce ==
    /\ computeCount <= 1
    /\ \A t \in Callers :
         Returned(t) =>
           /\ computeCount = 1
           /\ IF baseErr # NoErr
              THEN res[t] = [val |-> 0, err |-> baseErr]
              ELSE res[t].err = NoErr /\ AddU(res[t].val, base) = addr[t]

\* C1 witness: a caller that raced with the computing caller on a different
\* address (it went to the slow path and found the work done) while the
\* computing caller has returned.
C1_Witness ==
    \E t \in Callers, u \in Callers :
      /\ t # u
      /\ Returned(t)
      /\ pc[u] = "unlock"
      /\ computed = <<[by |-> t, addr |-> addr[t]]>>
      /\ addr[u] # addr[t]
      /\ computeCount = 1

\* C2: once the resolution has succeeded with base B, the stored base never
\* changes, computeBase is not run again, and every later ObjAddr(a2) returns
\* a2 - B with no error, whatever a2 is.
C2_MemoPermanent ==
    [][ (computeCount > 0 /\ baseErr = NoErr) =>
          /\ base' = base
          /\ baseErr' = baseErr
          /\ computeCount' = computeCount
          /\ \A t \in Callers :
               Returning(t) => res'[t] = [val |-> SubU(addr[t], base), err |-> NoErr]
      ]_vars

\* C2 witness: a call has returned a2 - B for an address a2 of another loadable
\* segment than the one the base B was computed from, whose own base differs.
C2_Witness ==
    /\ Opened
    /\ computed # <<>>
    /\ baseErr = NoErr
    /\ \E u \in Callers :
         LET s1 == findProgramHeader(HandleMapping, disk, computed[1].addr)
             s2 == findProgramHeader(HandleMapping, disk, addr[u])
         IN  /\ u # computed[1].by
             /\ Returned(u)
             /\ ~OutsideMapping(addr[u])
             /\ s1.err = NoErr /\ s2.err = NoErr /\ s1.ph # s2.ph
             /\ disk.base[s2.ph].err = NoErr
             /\ disk.base[s2.ph].base # base
             /\ res[u] = [val |-> SubU(addr[u], base), err |-> NoErr]

\* C3: once the first resolution has failed, the stored error never changes,
\* resolution is never attempted again, and every later ObjAddr call returns
\* that same error, even for an address inside [start, limit).
C3_Poisoned ==
    [][ (computeCount > 0 /\ baseErr # NoErr) =>
          /\ baseErr' = baseErr
          /\ base' = base
          /\ computeCount' = computeCount
          /\ \A t \in Callers :
               Returning(t) => res'[t] = [val |-> 0, err |-> baseErr]
      ]_vars

\* C3 witness: the resolution ran on an address outside the mapping, and
\* another call, with an address inside it, has returned the stored error.
C3_Witness ==
    /\ Opened
    /\ computed # <<>>
    /\ computeCount = 1
    /\ OutsideMapping(computed[1].addr)
    /\ \E u \in Callers :
         /\ u # computed[1].by
         /\ Returned(u)
         /\ ~OutsideMapping(addr[u])
         /\ res[u] = [val |-> 0, err |-> {EBounds}]

\* C4 as stated: every ObjAddr(a) call with a < start or a >= limit fails,
\* whatever the resolution state of the handle.
C4_Original ==
    \A t \in Callers :
      (Returned(t) /\ OutsideMapping(addr[t])) => res[t].err # NoErr

\* C4 as amended: an ObjAddr(a) call with a < start or a >= limit fails with the
\* out-of-range error when it is the call that runs computeBase, and with the
\* stored error when the stored outcome is an error; on a handle resolved with
\* base B it returns a - B and no error.
C4_Amended ==
    \A t \in Callers :
      (Returned(t) /\ OutsideMapping(addr[t])) =>
        /\ (computed # <<>> /\ computed[1].by = t) => res[t] = [val |-> 0, err |-> {EBounds}]
        /\ baseErr # NoErr => res[t] = [val |-> 0, err |-> baseErr]
        /\ baseErr = NoErr => res[t] = [val |-> SubU(addr[t], base), err |-> NoErr]

\* C4 witness: the call that ran computeBase had an address at the limit of the
\* mapping and returned the out-of-range error.
C4_Witness ==
    /\ Opened
    /\ \E t \in Callers :
         /\ Returned(t)
         /\ computed = <<[by |-> t, addr |-> addr[t]]>>
         /\ addr[t] = HandleMapping.limit
         /\ HandleMapping.start < HandleMapping.limit
         /\ res[t].err = {EBounds}

\* The first 4 bytes of the file are the ELF magic.
StartsWithMagic ==
    /\ Len(disk.bytes) >= 4
    /\ SubSeq(disk.bytes, 1, 4) = <<127, 69, 76, 70>>

\* Open has opened the file and its call of isELF has returned.
IsELFReturned == file.state = "open" /\ pcOpen \in {"checked", "defer", "done"}

\* Neither the read nor the seek of the last isELF call failed on I/O.
IsELFClean == EIO \notin isELFRes.err /\ ESeek \notin isELFRes.err

\* C8 as stated: for any file whose first 4 bytes are not the ELF magic, files
\* shorter than 4 bytes included, isELF reports false with no error and Open
\* fails with the 'unrecognized binary format' error and returns no handle
\* (I/O failures of the read and the seek set aside).
C8_Original ==
    (IsELFReturned /\ ~StartsWithMagic /\ IsELFClean) =>
      /\ isELFRes = [ok |-> FALSE, err |-> NoErr]
      /\ pcOpen = "done" => (openRes.obj = <<>> /\ EFormat \in openRes.err)

\* C8 as amended: for any non-empty file whose first 4 bytes are not the ELF
\* magic (files of 1 to 3 bytes included), when the read and the seek succeed,
\* isELF reports false with no error and Open fails with the 'unrecognized
\* binary format' error; for an empty file the read ends with io.EOF, isELF
\* reports false with the 'error reading magic number' error and Open fails with
\* that error instead. Open returns no handle in either case.
C8_Amended ==
    (IsELFReturned /\ ~StartsWithMagic) =>
      /\ ~isELFRes.ok
      /\ IsELFClean =>
           isELFRes.err = (IF disk.bytes = <<>> THEN {ERead, EEOF} ELSE NoErr)
      /\ pcOpen = "done" =>
           /\ openRes.obj = <<>>
           /\ openRes.err # NoErr
           /\ IsELFClean => (EFormat \in openRes.err <=> disk.bytes # <<>>)
           /\ (IsELFClean /\ disk.bytes = <<>>) => {ERead, EEOF} \subseteq openRes.err

\* C8 witness: Open has failed with the format error on a file of 3 bytes.
C8_Witness ==
    /\ pcOpen = "done"
    /\ disk.bytes = <<127, 69, 76>>
    /\ isELFRes = [ok |-> FALSE, err |-> NoErr]
    /\ openRes = [obj |-> <<>>, err |-> {EFormat}]

\* The operation that last returned, with the error it returned.
LastExit ==
    IF pcOpen = "checked" \/ checks > 0
    THEN [op |-> "isELF", err |-> isELFRes.err]
    ELSE [op |-> "Open", err |-> openRes.err]

\* isELF or Open (past os.Open) has just returned.
AtExit == file.state = "open" /\ pcOpen \in {"checked", "done"}

\* C9 as stated: isELF and Open restore the read position of the file on every
\* exit path, so that it is the same as before them (the start of the file).
C9_Original == AtExit => file.pos = 0

\* C9 as amended: isELF and Open call rewindFile on every exit path once the
\* file is open; the read position is back at the start of the file whenever
\* the seek succeeds, and when the seek fails the position is not restored and
\* the returned error contains the seek failure. After an Open that returns no
\* error, and any number of format checks whose seek succeeded, the position is
\* the start of the file.
C9_Amended ==
    AtExit =>
      /\ rewinds[LastExit.op].called
      /\ IF rewinds[LastExit.op].seekFailed
         THEN ESeek \in LastExit.err
         ELSE file.pos = 0

\* C9 witness: Open succeeded, format checks followed, and the position is the
\* start of the file.
C9_Witness ==
    /\ Opened
    /\ checks = MaxChecks
    /\ isELFRes = [ok |-> TRUE, err |-> NoErr]
    /\ file.pos = 0

\* The error out of an operation whose deferred rewindFile is recorded in r:
\* the seek failure joined to the error in flight, or that error unchanged.
Combined(r, out) ==
    IF r.seekFailed
    THEN ESeek \in out /\ r.inErr \subseteq out
    ELSE out = r.inErr

\* C10: whenever the seek of rewindFile fails, the error returned by the
\* enclosing operation (isELF, open, Open, computeBase) contains the seek failure
\* and the error already in flight; when the seek succeeds the error in flight
\* (or nil) is returned unchanged. A seek failure inside isELF or open is still
\* in the error Open returns, and one inside computeBase in the error of every
\* ObjAddr call.
C10_RewindCombined ==
    /\ rewinds["isELF"].called => Combined(rewinds["isELF"], isELFRes.err)
    /\ rewinds["open"].called => Combined(rewinds["open"], innerRes.err)
    /\ rewinds["Open"].called => Combined(rewinds["Open"], openRes.err)
    /\ rewinds["computeBase"].called => Combined(rewinds["computeBase"], baseErr)
    /\ (pcOpen = "done" /\ checks = 0) =>
         \A op \in {"isELF", "open"} :
           (rewinds[op].called /\ rewinds[op].seekFailed) =>
             ESeek \in openRes.err /\ rewinds[op].inErr \subseteq openRes.err
    /\ \A t \in Callers :
         (Returned(t) /\ rewinds["computeBase"].called
            /\ rewinds["computeBase"].seekFailed) =>
           ESeek \in res[t].err /\ rewinds["computeBase"].inErr \subseteq res[t].err

\* C10 witness: computeBase failed to find a program header, its seek failed
\* too, and a caller of ObjAddr has both failures in the error it got.
C10_Witness ==
    /\ rewinds["computeBase"].called
    /\ rewinds["computeBase"].seekFailed
    /\ ENoMatch \in rewinds["computeBase"].inErr
    /\ \E t \in Callers :
         Returned(t) /\ {ENoMatch, EFindPh, ESeek} \subseteq res[t].err

\* The loadable segments of the ELF file under selection.
SelLoadable == {i \in 1..Len(selElf.Progs) : selElf.Progs[i].Type = "PT_LOAD"}

SegEnd(i) == (selElf.Progs[i].Off + selElf.Progs[i].Memsz) % Modulus

\* The loadable segments overlapping the window (offset, limit - start).
SelOverlapping ==
    {i \in SelLoadable :
       /\ selMap.offset < SegEnd(i)
       /\ selElf.Progs[i].Off
            < (selMap.offset + ((selMap.limit - selMap.start + Modulus) % Modulus)) % Modulus}

\* Those among them whose file-offset range contains a - start + offset.
SelContaining(a) ==
    LET fileOffset == (a - selMap.start + selMap.offset + Modulus) % Modulus
    IN  {i \in SelOverlapping : selElf.Progs[i].Off <= fileOffset /\ fileOffset < SegEnd(i)}

SelUserspace ==
    /\ selMap.kernelOffset = <<>>
    /\ selMap.start < selMap.limit
    /\ selMap.limit < SignBit

\* C5: for a userspace mapping, findProgramHeader gives no header and no error
\* when the file has no loadable segment; otherwise, with S the loadable segments
\* overlapping the window (offset, limit - start): the error 'no program header
\* matches mapping' when S is empty, the one segment of S whatever the address
\* when S has one element, and else the one segment of S whose file-offset range
\* contains address - start + offset, an error when none or several do. A
\* non-loadable segment is never returned.
C5_UserspaceSelection ==
    SelUserspace =>
      \A a \in DOMAIN selRes :
        /\ selRes[a].ph # 0 => selRes[a].ph \in SelLoadable
        /\ IF SelLoadable = {}
           THEN selRes[a] = [ph |-> 0, err |-> NoErr]
           ELSE IF SelOverlapping = {}
           THEN selRes[a] = [ph |-> 0, err |-> {ENoMatch}]
           ELSE IF Cardinality(SelOverlapping) = 1
           THEN selRes[a].err = NoErr /\ selRes[a].ph \in SelOverlapping
           ELSE IF Cardinality(SelContaining(a)) = 1
           THEN selRes[a].err = NoErr /\ selRes[a].ph \in SelContaining(a)
           ELSE selRes[a].ph = 0 /\ selRes[a].err # NoErr

\* C5 witness: two loadable segments overlap the window, and two addresses
\* were each given the segment that contains their file offset.
C5_Witness ==
    /\ SelUserspace
    /\ Cardinality(SelOverlapping) = 2
    /\ \E a \in DOMAIN selRes, b \in DOMAIN selRes :
         /\ selRes[a].err = NoErr /\ selRes[b].err = NoErr
         /\ selRes[a].ph # selRes[b].ph
         /\ SelContaining(a) = {selRes[a].ph}
         /\ SelContaining(b) = {selRes[b].ph}

\* C6: whenever kernel_offset is set, or start >= limit, or limit >= 2^63,
\* findProgramHeader returns the text program header (FindTextProgHeader's
\* result, possibly none) without error, the same for every queried address.
C6_KernelSelection ==
    (selMap.kernelOffset # <<>> \/ selMap.start >= selMap.limit \/ selMap.limit >= SignBit) =>
      \A a \in DOMAIN selRes :
        /\ selRes[a] = [ph |-> selElf.text, err |-> NoErr]
        /\ \A b \in DOMAIN selRes : selRes[b] = selRes[a]

\* C6 witness: a mapping that is kernel-style only by its limit (no
\* kernel_offset, start < limit), queried with every address, all answered with
\* the text header although another loadable segment overlaps the window alone.
C6_Witness ==
    /\ selMap.kernelOffset = <<>>
    /\ selMap.start < selMap.limit
    /\ selMap.limit >= SignBit
    /\ DOMAIN selRes = SelAddrs
    /\ selElf.text # 0
    /\ Cardinality(SelOverlapping) = 1
    /\ selElf.text \notin SelOverlapping
    /\ \A a \in SelAddrs : selRes[a].ph = selElf.text

\* The handle is not nil and its field f holds a file.
HasFile(f) == clObj # <<>> /\ clObj[1][f] # "nil"

CloseMsg(f) == IF f = "File" THEN "close primary file" ELSE "close debuginfo file"

\* A Close call returns.
CloseReturns == clCall # <<>> /\ clCall' = <<>>

\* What holds of the handle and the result when a Close call has returned.
CloseOutcome ==
    LET err == clRes[Len(clRes)]
    IN  /\ \A f \in {"File", "DebuginfoFile"} :
             /\ HasFile(f) <=> (\E x \in clTried : x[1] = f)
             /\ HasFile(f) => clObj[1][f] = "closed"
        /\ \A x \in clTried : x[2] => CloseMsg(x[1]) \in err
        /\ err = NoErr <=> (\A x \in clTried : ~x[2])

\* C7: Close always tries to close the primary file and, when present, the
\* debuginfo file, even if closing the primary fails; the returned error contains
\* the failure of each close that failed (both when both fail) and is nil when
\* none fails; on a handle that holds no file (File and DebuginfoFile nil), or a
\* nil handle, Close does nothing and returns nil.
C7_CloseBoth ==
    [][ CloseReturns =>
          /\ CloseOutcome'
          /\ (~HasFile("File") /\ ~HasFile("DebuginfoFile")) =>
               (clObj' = clObj /\ clTried' = {} /\ clRes'[Len(clRes')] = NoErr)
      ]_vars

\* C7 witness: the first Close on a handle with both files open failed to close
\* each of them, tried both, and returned both failures.
C7_Witness ==
    /\ clCall = <<>>
    /\ Len(clRes) = 1
    /\ clTried = {<<"File", TRUE>>, <<"DebuginfoFile", TRUE>>}
    /\ clRes[1] = {"close primary file", "close debuginfo file", EIO}

\* Open has returned to its caller.
OpenDone == pcOpen = "done"

\* C11: Open returns exactly one of a handle and an error on every path: the
\* returned handle is non-nil if and only if the returned error is nil.
C11_Original == OpenDone => ((openRes.obj # <<>>) <=> (openRes.err = NoErr))

\* C11, what Open does return: never neither; a handle together with an error
\* exactly when the return statement had a handle and no error and the seek of
\* Open's deferred rewindFile failed.
C11_HandleAndError ==
    OpenDone =>
      /\ openRes.obj # <<>> \/ openRes.err # NoErr
      /\ (openRes.obj # <<>> /\ openRes.err # NoErr) <=>
           /\ rewinds["Open"].called
           /\ rewinds["Open"].seekFailed
           /\ rewinds["Open"].inErr = NoErr
           /\ pending.obj # <<>>

C11_Witness ==
    /\ OpenDone
    /\ openRes.obj # <<>>
    /\ openRes.err = {ESeek}

\* C20: every file opened by Open is owned by the handle Open returns or closed
\* before Open returns; when Open returns an error no open file remains.
C20_Original ==
    OpenDone =>
      /\ file.state = "open" => openRes.obj # <<>>
      /\ openRes.err # NoErr => file.state # "open"

\* C20, what Open does: once os.Open has succeeded the file stays open on every
\* path, whatever Open returns.
C20_NeverClosed ==
    (OpenDone /\ EOpen \notin openRes.err) => file.state = "open"

C20_Witness ==
    /\ OpenDone
    /\ openRes.obj = <<>>
    /\ openRes.err = {EFormat}
    /\ file.state = "open"

\* The handle Open returned has a degenerate mapping: start >= limit.
Degenerate == Opened /\ HandleMapping.start >= HandleMapping.limit

\* C18: on a handle whose mapping is degenerate (start >= limit) every ObjAddr
\* call fails, for every address, with the bounds error: the bounds check of
\* computeBase comes before segment selection, so that findProgramHeader is never
\* called through ObjAddr for such a mapping, although Open succeeds for it.
C18_Degenerate ==
    Degenerate =>
      /\ ~rewinds["computeBase"].called
      /\ computeCount >= 1 => (baseErr = {EBounds} /\ base = 0)
      /\ \A t \in Callers : Returned(t) => res[t] = [val |-> 0, err |-> {EBounds}]

C18_Witness ==
    /\ Degenerate
    /\ \A t \in Callers : Returned(t)
    /\ \E t \in Callers : addr[t] >= HandleMapping.start
    /\ \E t \in Callers : addr[t] < HandleMapping.limit

\* Caller t is inside ObjAddr.
InObjAddr(t) == pc[t] \notin {"idle", "returned"}

\* The one resolution has run and its outcome is stored: base, baseErr and isData
\* are written and the done flag is set.
OutcomeStored == baseOnce.done /\ computeCount = 1

\* C12: an ObjAddr call that arrives while the first resolution is in flight
\* does not get past Do before that resolution has stored its outcome, and under
\* fair scheduling every ObjAddr call, the triggering one and every waiter,
\* returns in the end: no caller blocks forever.
C12_BlockingCompletion ==
    /\ [](\A t \in Callers : pc[t] \in {"ret", "returned"} => OutcomeStored)
    /\ \A t \in Callers : InObjAddr(t) ~> Returned(t)

\* The resolution triggered by one caller has stored its outcome and still holds
\* the mutex, while another caller waits for it.
C12_Witness ==
    \E t, u \in Callers :
      /\ t # u
      /\ pc[u] = "unlock"
      /\ computed = <<[by |-> u, addr |-> addr[u]]>>
      /\ OutcomeStored
      /\ pc[t] = "lock"

\* The error of open's return statement, before its deferred rewindFile.
OpenInnerErr == rewinds["open"].inErr

\* The handle of open's return statement has not been resolved: no ObjAddr call
\* has run, base is zero, no error is stored and the done flag is clear.
Unresolved == base = 0 /\ baseErr = NoErr /\ ~isData /\ ~baseOnce.done

\* C15: open calls elfexec.GetBase with the text program header when
\* kernel_offset is set and with no program header when it is absent; if GetBase
\* fails, open fails with an error; if it succeeds, the base is discarded and
\* the handle returned is unresolved.
C15_Original ==
    openLog.probed =>
      /\ openLog.ph = IF openLog.kernelOffset # <<>> THEN disk.text ELSE 0
      /\ IF disk.base[openLog.ph].err # NoErr
         THEN innerRes.obj = <<>> /\ OpenInnerErr # NoErr
         ELSE innerRes.obj # <<>> /\ OpenInnerErr = NoErr
      /\ computeCount = 0 => Unresolved

\* C15 as the code has it: open calls elfexec.GetBase with the text program
\* header (FindTextProgHeader(elfFile), nil when the file has none) whether or
\* not kernel_offset is set, together with the kernel_offset it computed; if
\* GetBase fails, open fails with that error wrapped; if it succeeds, the base is
\* discarded and the handle returned is unresolved.
C15_Amended ==
    openLog.probed =>
      /\ openLog.ph = disk.text
      /\ IF disk.base[disk.text].err # NoErr
         THEN /\ innerRes.obj = <<>>
              /\ OpenInnerErr = {EBaseId} \cup disk.base[disk.text].err
         ELSE /\ innerRes.obj # <<>>
              /\ OpenInnerErr = NoErr
              /\ innerRes.obj[1].m[1].kernelOffset = openLog.kernelOffset
      /\ computeCount = 0 => Unresolved

\* kernel_offset is absent, the file has a text header for which GetBase fails
\* while it succeeds for no header, and Open has failed.
C15_Witness ==
    /\ OpenDone
    /\ openLog.probed
    /\ openLog.kernelOffset = <<>>
    /\ openLog.ph # 0
    /\ disk.base[openLog.ph].err # NoErr
    /\ disk.base[0].err = NoErr
    /\ openRes.obj = <<>>
    /\ EBaseId \in openRes.err

\* The path of the Open call contains "vmlinux", or one of start, limit, offset
\* is not a multiple of 4096.
ScanCondition ==
    \/ \E i \in 1..Len(args.path) :
          /\ i + 6 <= Len(args.path)
          /\ SubSeq(args.path, i, i + 6) = <<"v", "m", "l", "i", "n", "u", "x">>
    \/ args.start % 4096 # 0
    \/ args.limit % 4096 # 0
    \/ args.offset % 4096 # 0

\* The symbols of the file with the name open looked for.
SoughtSymbols == {i \in 1..Len(disk.syms) : disk.syms[i].Name = openLog.sought}

\* C16: open reads the symbol table if and only if the path contains "vmlinux"
\* or one of start, limit, offset is not a multiple of 4096 (open having decoded
\* the file); a handle opened with a path without "vmlinux" and all three
\* aligned has no kernel_offset; kernel_offset is present only when a scan was
\* performed and found a symbol with the sought name, and is the value of the
\* first such symbol.
C16_ScanGating ==
    /\ openLog.scanned => ScanCondition
    /\ (openLog.decoded /\ ScanCondition) => openLog.scanned
    /\ innerRes.obj # <<>> =>
         LET ko == innerRes.obj[1].m[1].kernelOffset
         IN  /\ ~ScanCondition => ko = <<>>
             /\ ko # <<>> =>
                  /\ openLog.scanned
                  /\ disk.symErr = "nil"
                  /\ SoughtSymbols # {}
                  /\ \E i \in SoughtSymbols :
                        /\ ko = <<disk.syms[i].Value>>
                        /\ \A j \in SoughtSymbols : i <= j
             /\ (openLog.scanned /\ disk.symErr = "nil" /\ SoughtSymbols # {}) => ko # <<>>

\* Open returned a handle with kernel_offset set, for a path without "vmlinux"
\* and an unaligned start.
C16_Witness ==
    /\ Opened
    /\ HandleMapping.kernelOffset = <<2 * PageSize>>
    /\ openLog.sought = SymText
    /\ args.path = PathKallsyms
    /\ args.start % 4096 # 0

\* C17: open does not fail because build-identifier extraction failed (the handle
\* has an empty build identifier), because the file has no symbol table, or
\* because the sought symbol is absent (the handle has no kernel_offset); during
\* the scan open fails only when reading the symbols fails with an error other
\* than 'no symbol table present'.
C17_NonFatal ==
    openLog.decoded =>
      /\ OpenInnerErr = {ESymbols} <=>
           (openLog.scanned /\ disk.symErr \notin {"nil", "ErrNoSymbols"})
      /\ OpenInnerErr # NoErr =>
           \/ OpenInnerErr = {ESymbols}
           \/ (openLog.probed /\ disk.base[openLog.ph].err # NoErr
               /\ OpenInnerErr = {EBaseId} \cup disk.base[openLog.ph].err)
      /\ OpenInnerErr = NoErr =>
           /\ innerRes.obj # <<>>
           /\ disk.buildIDFails => innerRes.obj[1].BuildID = <<>>
           /\ ~disk.buildIDFails => innerRes.obj[1].BuildID = disk.buildID
           /\ (disk.symErr = "ErrNoSymbols" \/ SoughtSymbols = {}) =>
                innerRes.obj[1].m[1].kernelOffset = <<>>

\* Open returned a handle although the build identifier could not be extracted
\* and the scan found a symbol table without the sought symbol.
C17_Witness ==
    /\ Opened
    /\ disk.buildIDFails
    /\ openLog.scanned
    /\ disk.symErr = "nil"
    /\ Len(disk.syms) > 0
    /\ SoughtSymbols = {}
    /\ openRes.obj[1].BuildID = <<>>
    /\ HandleMapping.kernelOffset = <<>>

\* The name starts with "[kernel.kallsyms]".
StartsWithKallsyms(name) ==
    /\ Len(name) >= 17
    /\ \A i \in 1..17 :
         name[i] = <<"[", "k", "e", "r", "n", "e", "l", ".",
                     "k", "a", "l", "l", "s", "y", "m", "s", "]">>[i]

\* C13: kernelRelocationSymbol returns what follows the prefix
\* "[kernel.kallsyms]" when the name starts with it ("_text", "_stext", or "" for
\* an empty suffix) and "" for any name without the prefix; the symbol a scan
\* searches for is that suffix when it is not empty and "_stext" otherwise.
C13_RelocationSymbol ==
    relOut # <<>> =>
      LET symbol == relOut[1].symbol
      IN  /\ StartsWithKallsyms(relName) =>
               /\ Len(symbol) = Len(relName) - 17
               /\ \A i \in 1..Len(symbol) : symbol[i] = relName[17 + i]
          /\ ~StartsWithKallsyms(relName) => symbol = <<>>
          /\ relOut[1].sought = IF symbol # <<>> THEN symbol
                                ELSE <<"_", "s", "t", "e", "x", "t">>

\* The name is the bare prefix: the suffix is empty and _stext is searched for
\* and found.
C13_Witness ==
    /\ relOut # <<>>
    /\ Len(relName) = 17
    /\ StartsWithKallsyms(relName)
    /\ relOut[1].symbol = <<>>
    /\ relOut[1].sought = <<"_", "s", "t", "e", "x", "t">>
    /\ relOut[1].found = <<3 * PageSize>>

\* Getter t is inside a call of the loader.
Loading(t) == ccPc[t] = "loading"

\* Getter t has returned from Get.
GetDone(t) == ccPc[t] = "done"

\* Getter t started a load of its own.
StartedLoad(t) == sfCalls[t].state # "none"

\* What the call c of the loader produced.
Produced(c) == [val |-> sfCalls[c].val, err |-> sfCalls[c].err]

\* For any key, at most one call of the loader for it is in progress.
OneLoadPerKey ==
    \A t, u \in Getters : (t # u /\ Loading(t) /\ Loading(u)) => ccKey[t] # ccKey[u]

\* C14: for any key at most one call of the loader for that key is in progress
\* at any time; a caller that misses on the key while a load for it is in flight
\* does not start a second load and receives the value and error produced by the
\* call that was in flight.
C14_Original ==
    /\ OneLoadPerKey
    /\ \A t \in Getters :
         ccSeen[t] # 0 =>
           /\ ~StartedLoad(t)
           /\ GetDone(t) => ccRes[t] = Produced(ccSeen[t])

\* C14 as the code has it: for any key at most one call of the loader for that
\* key is in progress at any time; a caller whose call of Do finds a load for
\* the key's string in flight does not start a second load and receives the
\* value and error produced by that call. A caller that missed while a load was
\* in flight and reaches Do only after that load has finished starts a load of
\* its own.
C14_Amended ==
    /\ OneLoadPerKey
    /\ \A t \in Getters :
         (ccCall[t] # 0 /\ ccCall[t] # t) =>
           /\ ~StartedLoad(t)
           /\ ccPc[t] \in {"store", "done"} => ccRes[t] = Produced(ccCall[t])
    /\ \A t \in Getters :
         StartedLoad(t) => (ccCall[t] = t /\ sfCalls[t].arg = ccKey[t])

\* Two getters missed on the same key; the second joined the load of the first
\* and both have returned its value.
C14_Witness ==
    \E t, u \in Getters :
      /\ t # u
      /\ ccKey[t] = ccKey[u]
      /\ ccCall[t] = u
      /\ GetDone(t)
      /\ GetDone(u)
      /\ ~ccRes[t].err
      /\ ccRes[t] = ccRes[u]
      /\ ccLoads = 1

\* C19: the value the cache returns for a key k is always the result of the
\* loader invoked with k itself, in every interleaving of concurrent misses,
\* including keys of different types whose "%v" string forms are equal.
C19_Original ==
    \A t \in Getters :
      (GetDone(t) /\ ~ccRes[t].err) => ccRes[t].val[1].of = ccKey[t]

\* C19, what does hold: the value returned for k is the result of the loader
\* invoked with a key whose singleflight string equals that of k; and the value
\* stored under a key is one some getter was returned for that key.
C19_SameString ==
    \A t \in Getters :
      (GetDone(t) /\ ~ccRes[t].err) =>
        singleflightKey(ccRes[t].val[1].of) = singleflightKey(ccKey[t])

\* Get(10) has returned the value the loader produced for the string "10".
C19_Witness ==
    \E t \in Getters :
      /\ GetDone(t)
      /\ ccKey[t] = IntKey(10)
      /\ ~ccRes[t].err
      /\ ccRes[t].val[1].of = StrKey(<<"1", "0">>)
      /\ ccStore[IntKey(10)] = ccRes[t].val

====
